---- MODULE Spec2Model ----
(***************************************************************************)
(* The VM placement demo: the ML model-comparison service (train_all,      *)
(* tune_hyperparameters, predict and the read-only endpoints under         *)
(* /api/ml), the React pages that talk to it, and the start-up scripts.    *)
(*                                                                         *)
(*   Spec        the service together with the MLComparison page           *)
(*               (src/src/pages/mlSimulation.jsx).  Of the page, Spec      *)
(*               keeps what decides which requests reach the service and   *)
(*               when: loading, the position of the two run handlers and   *)
(*               predictionInput.                                          *)
(*   PageSpec    the MLComparison page whole, with what it displays,       *)
(*               against a server that may answer anything or not at all.  *)
(*   FormSpec    the prediction form of the page and the request body.     *)
(*   ScriptSpec  start_project.sh and start_project.bat.                   *)
(*   DashSpec    the polling effect of src/src/pages/Dashboard.jsx.        *)
(*   SimSpec     MLSimulation.handleSimulate; SimFairSpec adds that every  *)
(*               awaited promise settles.                                  *)
(*   OptSpec     src/src/pages/Optimize.jsx: fetchVMs and handlePredict.   *)
(*                                                                         *)
(* The service itself (ml_api_server.py, ml_model_comparison.py) is not    *)
(* among the source files; its operations are written from spec.md         *)
(* sections 3-7.  Numeric quantities are abstracted to small integers: an  *)
(* R2 score is a rank in 0..MaxScore, a predicted value is a label code in *)
(* halves.  The estimators are seeded and the dataset is cached, so a fit  *)
(* is named by the hyperparameter configuration it was made with.          *)
(***************************************************************************)
EXTENDS Integers, Sequences, FiniteSets, TLC

\* ---------------------------------------------------------------- bounds
NumModels == 2      \* how many of the registry's entries are modelled
MaxScore == 1       \* R2 ranks are 0..MaxScore
MaxConfigs == 1     \* hyperparameter configurations a grid may hold
NumVmOptions == 2   \* how many of the select's VM names are modelled
NumHosts == 2       \* host labels known to the encoder
MaxInFlight == 2    \* predict requests of the page awaiting their response
MaxPayload == 1     \* distinct payloads an endpoint may answer with
MaxSamples == 13    \* samples the Dashboard receives
MaxElapsed == 5     \* seconds of an effect that are counted
MaxEffects == 2     \* runs of the Dashboard's polling effect
MaxPending == 2     \* Dashboard requests awaiting their response
NumVmSamples == 12  \* samples simulate_vm answers with
MaxLog == 3         \* entries of Optimize's backendLog

\* ------------------------------------------------------ program constants
DefaultCpu == 50
DefaultMemory == 16
DefaultNetworkIo == 25      \* 2.5, in tenths
DefaultPower == 200
MinMemory == 1
MinNetworkIo == 1       \* 0.1, in tenths
MinPower == 100
PollPeriod == 2         \* setInterval(fetchMetrics, 2000), in seconds
KeepLast == 11          \* prev.slice(-11)
MinCpu == 0

\* --------------------------------------------------------------- registry
AllModelNames ==
  <<"Random Forest", "Gradient Boosting", "XGBoost", "K-Nearest Neighbors",
    "Support Vector Regression", "Decision Tree", "Neural Network">>

ModelOrder == SubSeq(AllModelNames, 1, NumModels)

Models == {ModelOrder[i] : i \in 1..NumModels}

ModelIndex(m) == CHOOSE i \in 1..NumModels : ModelOrder[i] = m

NoModel == "none"

Configs == 1..MaxConfigs

NoMetrics == [MSE |-> -1, R2 |-> -1, MAE |-> -1]

\* an estimator: not yet fitted, or fitted with configuration c, where 0 is
\* the literal defaults of the registry and 1..MaxConfigs come from a grid
DefaultEstimator == [fitted |-> FALSE, cfg |-> 0]

Fit(c) == [fitted |-> TRUE, cfg |-> c]

\* the R2 rank a fitted estimator of model m reaches on the test split
Score(m, est) == (ModelIndex(m) + est.cfg) % (MaxScore + 1)

\* The three metrics of one evaluation on the test split.  On one split MSE
\* is a decreasing function of R2, so an evaluation is named by its R2 rank.
Evaluate(r) ==
  [MSE |-> (MaxScore - r) * (MaxScore - r), R2 |-> r, MAE |-> MaxScore - r]

\* ------------------------------------------------------------ the encoder
AllVmOptions ==
  <<"VM1", "VM2", "VM3", "VM4", "VM5", "VM6", "VM7", "VM8", "VM9", "VM10">>

VmOptions == {AllVmOptions[i] : i \in 1..NumVmOptions}

VmIndex(vm) == CHOOSE i \in 1..NumVmOptions : AllVmOptions[i] = vm

AllHosts == <<"H1", "H2", "H3", "H4">>

Hosts == SubSeq(AllHosts, 1, NumHosts)

\* the label code of a vm name: its rank among the names the encoder was fit on
VmCode(classes, vm) == Cardinality({c \in classes : VmIndex(c) < VmIndex(vm)})

\* power_efficiency = power / cpu_usage, guarded against division by zero
PowerEfficiency(power, cpu) == IF cpu = 0 THEN power ELSE power \div cpu

ResourceIntensity(cpu, memory) == cpu + memory

BuildFeatures(classes, input) ==
  <<input.cpu, input.memory, input.network_io, input.power,
    ResourceIntensity(input.cpu, input.memory),
    PowerEfficiency(input.power, input.cpu),
    VmCode(classes, input.vm)>>

RECURSIVE SumSeq(_)
SumSeq(s) == IF s = <<>> THEN 0 ELSE Head(s) + SumSeq(Tail(s))

\* The value estimator est of model m returns on a feature vector, in halves
\* of a label code: a regressor may return a value between two codes and a
\* value outside 0..NumHosts-1.  The values range over -1.0 .. NumHosts.
PredictValue(m, est, features) ==
  ((SumSeq(features) + ModelIndex(m) + 2 * est.cfg) % (2 * NumHosts + 3)) - 2

\* the integer nearest to a value given in halves
Nearest(v) == (v + 1) \div 2

\* variant: a code outside the known range becomes the first code
ClampToFirst(c) == IF c < 0 \/ c > NumHosts - 1 THEN 0 ELSE c

Clamp(c) == IF c < 0 THEN 0 ELSE IF c > NumHosts - 1 THEN NumHosts - 1 ELSE c

\* nearest valid code, then the inverse encoder
InverseTransform(v) == Hosts[Clamp(Nearest(v)) + 1]

\* ------------------------------------------------------------------ state
VARIABLES
  \* the service
  trained,          \* model name -> trained flag
  estimator,        \* model name -> the estimator (fitted or not, config)
  metrics,          \* model name -> {MSE, R2, MAE} of the last evaluation
  best_model,       \* the designated best model, NoModel before any run
  encoder,          \* the vm names the label encoder was fit on
  file,             \* the dataset file: <<>> when absent, else its content
  dataset,          \* the Dataset handed to the Feature Builder
  fallback,         \* what the running train_all's load recovered from
  srvRun,           \* "idle", "training" or "tuning"
  srvIdx,           \* position of the run in ModelOrder
  grid,             \* model name -> parameter grid of the tuning run
  fit_failures,     \* models whose fit failed in the current or last run
  \* the MLComparison page
  loading,
  predictionInput,
  pc,               \* position of initializeModels/runHyperparameterTuning
  \* history
  published,        \* what the last completed run left for predictions to read
  runStart,         \* registry contents when the current or last run started
  firstRun,         \* what the first completed training run recorded
  lastKind,         \* kind of the last completed run, "none" before the first
  served,           \* the last predict served since a run last completed and
                    \* the form was last edited (or since the start): <<>> or
                    \* its input and response
  \* what the MLComparison page displays
  error,
  models,
  performance,
  featureImportance,
  predictionResult, \* <<>> for null, else the body of the response
  predictsInFlight, \* predict requests sent and not yet answered
  runsInFlight,     \* initializeModels and runHyperparameterTuning calls that
                    \* have started and not ended
  handled,          \* the response the last step handled: <<>> if none
  \* the prediction form of the MLComparison page
  body,             \* the body of the last POST /predict: <<>> if none
  \* the start-up scripts
  script,           \* which one runs: "sh" or "bat"
  found,            \* the commands found on the PATH
  line,             \* position of the script
  PYTHON_CMD,
  printed,          \* the error messages printed
  started,          \* <<>>, or the interpreter that ran start_project.py
  status,           \* exit status of the script, NoStatus while it runs
  \* the Dashboard
  mounted,
  apiBase,          \* the apiBase prop: the n-th value it has taken
  metricsHistory,
  effect,           \* how many times the polling effect has run
  timers,           \* the intervals set and not cleared
  pending,          \* the requests sent and not yet resolved
  arrivals,         \* how many samples were appended
  sampleFrom,       \* the effect whose request brought the last of them
  elapsed,          \* seconds since the current effect ran, up to MaxElapsed
  sentByEffect,     \* requests the current effect sent in that time
  \* the MLSimulation page
  simulation,       \* <<>> for null, else the sample
  mlResult,         \* <<>> for null, else the text shown and the body it answers
  sim_loading,      \* MLSimulation's loading
  sim_pc,           \* position of handleSimulate
  vmSample,         \* handleSimulate's vmSample
  sim_sent,         \* the requests of the current handleSimulate run
  \* the Optimize page
  vmOptions,
  form,             \* of the form, vm and cpu
  placement,        \* <<>> for null, else the placement shown
  opt_loading,      \* Optimize's loading
  opt_error,        \* Optimize's error, "" when empty
  backendLog,
  vms_pc,           \* position of the mount effect's fetchVMs
  opt_pc,           \* position of handlePredict
  opt_inFlight,     \* handlePredict calls that have started and not ended
  opt_last          \* the handler the last step belongs to

srvVars == <<trained, estimator, metrics, best_model, encoder, file, dataset,
             fallback, srvRun, srvIdx, grid, fit_failures>>

registryVars == <<trained, estimator, metrics, best_model, encoder>>

pageVars == <<loading, predictionInput, pc>>

histVars == <<published, runStart, firstRun, lastKind, served>>

displayVars == <<error, models, performance, featureImportance,
                 predictionResult, predictsInFlight, runsInFlight, handled>>

\* what no step of the service and of the requests that reach it changes
formVars == <<body>>

scriptVars == <<script, found, line, PYTHON_CMD, printed, started, status>>

\* the variables of the components other than the ML service and its page
dashVars == <<mounted, apiBase, metricsHistory, effect, timers, pending,
              arrivals, sampleFrom, elapsed, sentByEffect>>

simVars == <<simulation, mlResult, sim_loading, sim_pc, vmSample, sim_sent>>

optVars == <<vmOptions, form, placement, opt_loading, opt_error, backendLog,
             vms_pc, opt_pc, opt_inFlight, opt_last>>

elsewhere == <<scriptVars, dashVars, simVars, optVars>>

outsideSpec == <<displayVars, formVars, elsewhere>>

vars == <<srvVars, pageVars, histVars, outsideSpec>>

Registry == [trained |-> trained, estimator |-> estimator,
             metrics |-> metrics, best_model |-> best_model]

\* what a prediction reads: the estimators, the designation and the encoder
View == [estimator |-> estimator, best_model |-> best_model, encoder |-> encoder]

\* the fixed columns of the dataset file
Schema == <<"cpu_usage", "memory", "network_io", "power", "vm", "host">>

NoDataset == [columns |-> <<>>, vms |-> {}]

\* a file with wrong columns
Malformed == [columns |-> <<"cpu_usage", "memory">>, vms |-> {}]

\* the datasets a file can hold or the generator can produce: they differ
\* in the vm names that occur, VM1..VMk for some k
Datasets ==
  {[columns |-> Schema, vms |-> {AllVmOptions[i] : i \in 1..k}] :
     k \in 1..NumVmOptions}

\* what keeps load_or_generate from loading the file
Failure(f) ==
  IF f = <<>> THEN "absent"
  ELSE IF f[1].columns # Schema THEN "DataFormatError"
  ELSE "none"

\* variant: a file that exists is loaded as it is
load_unchecked(f) == IF f # <<>> THEN {f[1]} ELSE Datasets

\* load_or_generate(path): the dataset of the file when the file exists and
\* parses as the schema; a synthetic dataset when the file is absent or
\* malformed (DataFormatError, caught by the caller)
load_or_generate(f) ==
  IF f # <<>> /\ f[1].columns = Schema THEN {f[1]} ELSE Datasets

\* useState initial values, then the mount effect has called initializeModels
\* useState(null)
Null == "null"

\* useState([]), lines 97-99
Empty == 0

\* lines 97-102 and the mount effect's initializeModels up to its first
\* await: setLoading(true), setError(null)
DisplayInit ==
  /\ error = Null
  /\ models = Empty
  /\ performance = Empty
  /\ featureImportance = Empty
  /\ predictionResult = <<>>
  /\ predictsInFlight = 0
  /\ runsInFlight = 1
  /\ handled = <<>>

NoStatus == -1

\* no start-up script is running
ScriptOff ==
  /\ script = "sh"
  /\ found = {}
  /\ line = "off"
  /\ PYTHON_CMD = ""
  /\ printed = {}
  /\ started = <<>>
  /\ status = NoStatus

\* the service as constructed, the page as mounted
MLStart ==
  /\ trained = [m \in Models |-> FALSE]
  /\ estimator = [m \in Models |-> DefaultEstimator]
  /\ metrics = [m \in Models |-> NoMetrics]
  /\ best_model = NoModel
  /\ encoder = {}
  /\ file \in {<<>>, <<Malformed>>} \cup {<<d>> : d \in Datasets}
  /\ dataset = NoDataset
  /\ fallback = "none"
  /\ srvRun = "idle"
  /\ srvIdx = 0
  /\ grid = [m \in Models |-> {}]
  /\ fit_failures = {}
  /\ loading = TRUE
  /\ predictionInput = [cpu |-> DefaultCpu, memory |-> DefaultMemory,
                        network_io |-> DefaultNetworkIo, power |-> DefaultPower,
                        vm |-> "VM1"]
  /\ pc = "initialize"
  /\ published = View
  /\ runStart = Registry
  /\ firstRun = <<>>
  /\ lastKind = "none"
  /\ served = <<>>

\* no Dashboard is mounted
DashOff ==
  /\ mounted = FALSE
  /\ apiBase = 1
  /\ metricsHistory = <<>>
  /\ effect = 0
  /\ timers = {}
  /\ pending = {}
  /\ arrivals = 0
  /\ sampleFrom = 0
  /\ elapsed = 0
  /\ sentByEffect = 0

\* MLSimulation as mounted, lines 4-6
SimInit ==
  /\ simulation = <<>>
  /\ mlResult = <<>>
  /\ sim_loading = FALSE
  /\ sim_pc = "idle"
  /\ vmSample = 0
  /\ sim_sent = <<>>

\* Optimize as mounted, lines 7-13, its mount effect having sent GET
\* /api/v1/vms (lines 15-18)
OptInit ==
  /\ vmOptions = <<>>
  /\ form = [vm |-> "", cpu |-> DefaultCpu]
  /\ placement = <<>>
  /\ opt_loading = FALSE
  /\ opt_error = ""
  /\ backendLog = <<>>
  /\ vms_pc = "fetch"
  /\ opt_pc = "idle"
  /\ opt_inFlight = 0
  /\ opt_last = "mount"

Init ==
  /\ OptInit
  /\ ScriptOff
  /\ DashOff
  /\ SimInit
  /\ DisplayInit
  /\ body = <<>>
  /\ MLStart

\* ------------------------------------------------------------ the service
TrainedModels == {m \in Models : trained[m]}

\* variant: the designation goes to the first trained model, whatever its R2
FirstTrained(mets, T) ==
  IF T = {} THEN NoModel
  ELSE ModelOrder[CHOOSE i \in 1..NumModels :
         /\ ModelOrder[i] \in T
         /\ \A j \in 1..(i - 1) : ModelOrder[j] \notin T]

\* the first model, in registry order, that no trained model beats on R2
HighestR2(mets, T) ==
  IF T = {} THEN NoModel
  ELSE ModelOrder[CHOOSE i \in 1..NumModels :
         /\ ModelOrder[i] \in T
         /\ \A m \in T : mets[m].R2 <= mets[ModelOrder[i]].R2
         /\ \A j \in 1..(i - 1) :
              ModelOrder[j] \in T => mets[ModelOrder[j]].R2 < mets[ModelOrder[i]].R2]

\* variant: predict looks at the trained flags only and picks the best model
\* from the metrics recorded so far
predictFromFlags(input) ==
  LET T == {m \in Models : trained[m]} IN
  IF T = {}
  THEN [status |-> "error", message |-> "NotTrainedError"]
  ELSE IF input.vm \notin encoder
  THEN [status |-> "error", message |-> "UnknownCategoryError"]
  ELSE LET features == BuildFeatures(encoder, input)
           all == [m \in T |-> PredictValue(m, estimator[m], features)]
           best ==
             ModelOrder[CHOOSE i \in 1..NumModels :
               /\ ModelOrder[i] \in T
               /\ \A m \in T : metrics[m].R2 <= metrics[ModelOrder[i]].R2
               /\ \A j \in 1..(i - 1) :
                    ModelOrder[j] \in T
                      => metrics[ModelOrder[j]].R2 < metrics[ModelOrder[i]].R2]
       IN [status |-> "success",
           prediction |-> [recommended_host |-> InverseTransform(all[best]),
                           best_model |-> best,
                           confidence |-> metrics[best].R2],
           all_predictions |-> all]

\* variant: the recommended host is taken from the first model's output
predictFirstOutput(input) ==
  IF TrainedModels = {} \/ best_model = NoModel
  THEN [status |-> "error", message |-> "NotTrainedError"]
  ELSE IF input.vm \notin encoder
  THEN [status |-> "error", message |-> "UnknownCategoryError"]
  ELSE LET features == BuildFeatures(encoder, input)
           all == [m \in TrainedModels |-> PredictValue(m, estimator[m], features)]
       IN [status |-> "success",
           prediction |-> [recommended_host |-> InverseTransform(all[ModelOrder[1]]),
                           best_model |-> best_model,
                           confidence |-> metrics[best_model].R2],
           all_predictions |-> all]

\* predict(raw_features)
predict(input) ==
  IF TrainedModels = {} \/ best_model = NoModel
  THEN [status |-> "error", message |-> "NotTrainedError"]
  ELSE IF input.vm \notin encoder
  THEN [status |-> "error", message |-> "UnknownCategoryError"]
  ELSE LET features == BuildFeatures(encoder, input)
           all == [m \in TrainedModels |-> PredictValue(m, estimator[m], features)]
       IN [status |-> "success",
           prediction |-> [recommended_host |-> InverseTransform(all[best_model]),
                           best_model |-> best_model,
                           confidence |-> metrics[best_model].R2],
           all_predictions |-> all]

\* GET /results
results ==
  [status |-> "success", results |-> [m \in TrainedModels |-> metrics[m]]]

\* GET /performance
get_performance ==
  [status |-> "success",
   performance_metrics |-> [m \in TrainedModels |-> metrics[m]],
   best_model |-> best_model]

\* GET /feature-importance (of the Random Forest)
feature_importance ==
  [status |-> "success", feature_importance |-> estimator["Random Forest"]]

\* GET /dataset-info
dataset_info ==
  [status |-> IF encoder = {} THEN "error" ELSE "success", vms |-> encoder]

\* variant: initialization builds a fresh registry before it trains
TrainAllStartFresh ==
  /\ pc = "initialize"
  /\ srvRun = "idle"
  /\ \E d \in load_or_generate(file) :
       /\ dataset' = d
       /\ file' = <<d>>
       /\ fallback' = Failure(file)
       /\ encoder' = d.vms
  /\ trained' = [m \in Models |-> FALSE]
  /\ estimator' = [m \in Models |-> DefaultEstimator]
  /\ metrics' = [m \in Models |-> NoMetrics]
  /\ srvRun' = "training"
  /\ srvIdx' = 1
  /\ fit_failures' = {}
  /\ runStart' = Registry
  /\ UNCHANGED <<best_model, grid, pageVars, published, firstRun, lastKind, served>>
  /\ UNCHANGED outsideSpec

\* POST /initialize reaches the service: the dataset is loaded or generated
\* (and cached as the file), and the encoder is fit on its vm names
TrainAllStart ==
  /\ pc = "initialize"
  /\ srvRun = "idle"
  /\ \E d \in load_or_generate(file) :
       /\ dataset' = d
       /\ file' = <<d>>
       /\ fallback' = Failure(file)
       /\ encoder' = d.vms
  /\ srvRun' = "training"
  /\ srvIdx' = 1
  /\ fit_failures' = {}
  /\ runStart' = Registry
  /\ UNCHANGED <<trained, estimator, metrics, best_model, grid, pageVars,
                 published, firstRun, lastKind, served>>
  /\ UNCHANGED outsideSpec

\* variant: train_all fits each entry's estimator with the configuration the
\* entry holds
TrainStepKeepsConfig ==
  /\ srvRun = "training"
  /\ srvIdx <= NumModels
  /\ LET m == ModelOrder[srvIdx]
         est == Fit(estimator[m].cfg) IN
       /\ trained' = [trained EXCEPT ![m] = TRUE]
       /\ estimator' = [estimator EXCEPT ![m] = est]
       /\ metrics' = [metrics EXCEPT ![m] = Evaluate(Score(m, est))]
  /\ srvIdx' = srvIdx + 1
  /\ UNCHANGED <<best_model, encoder, file, dataset, fallback, srvRun, grid, fit_failures,
                 pageVars, histVars>>
  /\ UNCHANGED outsideSpec

\* train_all fits and evaluates the next registry entry, in place
TrainStep ==
  /\ srvRun = "training"
  /\ srvIdx <= NumModels
  /\ LET m == ModelOrder[srvIdx] IN
       /\ trained' = [trained EXCEPT ![m] = TRUE]
       /\ estimator' = [estimator EXCEPT ![m] = Fit(0)]
       /\ metrics' = [metrics EXCEPT ![m] = Evaluate(Score(m, Fit(0)))]
  /\ srvIdx' = srvIdx + 1
  /\ UNCHANGED <<best_model, encoder, file, dataset, fallback, srvRun, grid, fit_failures,
                 pageVars, histVars>>
  /\ UNCHANGED outsideSpec

\* the run is over: the designation is recomputed and the page's await of
\* the /initialize response resumes with status success
TrainAllDone ==
  /\ srvRun = "training"
  /\ srvIdx > NumModels
  /\ best_model' = HighestR2(metrics, TrainedModels)
  /\ srvRun' = "idle"
  /\ published' = [View EXCEPT !.best_model = best_model']
  /\ lastKind' = "training"
  /\ served' = <<>>
  /\ pc' = "init_results"
  /\ fallback' = "none"
  /\ firstRun' = IF firstRun = <<>>
                  THEN <<[dataset |-> dataset, metrics |-> metrics,
                          best_model |-> best_model']>>
                  ELSE firstRun
  /\ UNCHANGED <<trained, estimator, metrics, encoder, file, dataset, srvIdx, grid,
                 fit_failures, loading, predictionInput, runStart>>
  /\ UNCHANGED outsideSpec

\* POST /hyperparameter-tuning reaches the service after a training run; the
\* grid it is handed holds, for each model, no configuration or some: the
\* search may return any configuration, so a non-empty grid is Configs
TuneStart ==
  /\ pc = "tune"
  /\ srvRun = "idle"
  /\ best_model # NoModel
  /\ \E g \in [Models -> {{}, Configs}] : grid' = g
  /\ srvRun' = "tuning"
  /\ srvIdx' = 1
  /\ fit_failures' = {}
  /\ runStart' = Registry
  /\ UNCHANGED <<trained, estimator, metrics, best_model, encoder, file, dataset,
                 fallback, pageVars,
                 published, firstRun, lastKind, served>>
  /\ UNCHANGED outsideSpec

\* variant: a model without a parameter grid is searched over every
\* configuration
TuneSkipSearchesAll ==
  /\ srvRun = "tuning"
  /\ srvIdx <= NumModels
  /\ grid[ModelOrder[srvIdx]] = {}
  /\ LET m == ModelOrder[srvIdx] IN
       \E c \in Configs :
         /\ estimator' = [estimator EXCEPT ![m] = Fit(c)]
         /\ metrics' = [metrics EXCEPT ![m] = Evaluate(Score(m, Fit(c)))]
  /\ srvIdx' = srvIdx + 1
  /\ UNCHANGED <<trained, best_model, encoder, file, dataset, fallback, srvRun, grid, fit_failures,
                 pageVars, histVars>>
  /\ UNCHANGED outsideSpec

\* a model without a parameter grid is not searched
TuneSkip ==
  /\ srvRun = "tuning"
  /\ srvIdx <= NumModels
  /\ grid[ModelOrder[srvIdx]] = {}
  /\ srvIdx' = srvIdx + 1
  /\ UNCHANGED <<registryVars, file, dataset, fallback, srvRun, grid, fit_failures,
                 pageVars, histVars>>
  /\ UNCHANGED outsideSpec

\* the search replaces the estimator by the best configuration and re-evaluates
TuneFit ==
  /\ srvRun = "tuning"
  /\ srvIdx <= NumModels
  /\ LET m == ModelOrder[srvIdx] IN
       /\ grid[m] # {}
       /\ \E c \in grid[m] :
            /\ estimator' = [estimator EXCEPT ![m] = Fit(c)]
            /\ metrics' = [metrics EXCEPT ![m] = Evaluate(Score(m, Fit(c)))]
       /\ trained' = [trained EXCEPT ![m] = TRUE]
  /\ srvIdx' = srvIdx + 1
  /\ UNCHANGED <<best_model, encoder, file, dataset, fallback, srvRun, grid, fit_failures,
                 pageVars, histVars>>
  /\ UNCHANGED outsideSpec

\* variant: the model whose fit raised is left without an estimator
TuneFitFailureDropsModel ==
  /\ srvRun = "tuning"
  /\ srvIdx <= NumModels
  /\ grid[ModelOrder[srvIdx]] # {}
  /\ fit_failures' = fit_failures \cup {ModelOrder[srvIdx]}
  /\ estimator' = [estimator EXCEPT ![ModelOrder[srvIdx]] = DefaultEstimator]
  /\ metrics' = [metrics EXCEPT ![ModelOrder[srvIdx]] = NoMetrics]
  /\ srvIdx' = srvIdx + 1
  /\ UNCHANGED <<trained, best_model, encoder, file, dataset, fallback, srvRun, grid, pageVars,
                 histVars>>
  /\ UNCHANGED outsideSpec

\* a configuration raises at fit time: recorded for the model, model skipped
TuneFitFailure ==
  /\ srvRun = "tuning"
  /\ srvIdx <= NumModels
  /\ grid[ModelOrder[srvIdx]] # {}
  /\ fit_failures' = fit_failures \cup {ModelOrder[srvIdx]}
  /\ srvIdx' = srvIdx + 1
  /\ UNCHANGED <<registryVars, file, dataset, fallback, srvRun, grid, pageVars, histVars>>
  /\ UNCHANGED outsideSpec

\* the tuning run is over: the designation is recomputed and the page's
\* await of the /hyperparameter-tuning response resumes with status success
TuneDone ==
  /\ srvRun = "tuning"
  /\ srvIdx > NumModels
  /\ best_model' = HighestR2(metrics, TrainedModels)
  /\ srvRun' = "idle"
  /\ published' = [View EXCEPT !.best_model = best_model']
  /\ lastKind' = "tuning"
  /\ served' = <<>>
  /\ pc' = "tune_results"
  /\ UNCHANGED <<trained, estimator, metrics, encoder, file, dataset, fallback, srvIdx, grid,
                 fit_failures, loading, predictionInput, runStart, firstRun>>
  /\ UNCHANGED outsideSpec

\* a run completes
RunCompletes == srvRun # "idle" /\ srvRun' = "idle"

\* ------------------------------------------------------ the MLComparison page
CpuValues == {MinCpu, DefaultCpu}

\* the Initialize Models button (disabled while loading): POST /initialize
initializeModels ==
  /\ ~loading
  /\ loading' = TRUE
  /\ pc' = "initialize"
  /\ UNCHANGED <<srvVars, predictionInput, histVars>>
  /\ UNCHANGED outsideSpec

\* GET /results, awaited by initializeModels and runHyperparameterTuning
loadResults ==
  /\ pc \in {"init_results", "tune_results"}
  /\ results.status = "success"
  /\ pc' = IF pc = "init_results" THEN "init_performance" ELSE "tune_performance"
  /\ UNCHANGED <<srvVars, loading, predictionInput, histVars>>
  /\ UNCHANGED outsideSpec

\* GET /performance; it is the last await of runHyperparameterTuning
loadPerformance ==
  /\ pc \in {"init_performance", "tune_performance"}
  /\ get_performance.status = "success"
  /\ IF pc = "init_performance"
     THEN /\ pc' = "init_feature"
          /\ UNCHANGED loading
     ELSE /\ pc' = "idle"
          /\ loading' = FALSE
  /\ UNCHANGED <<srvVars, predictionInput, histVars>>
  /\ UNCHANGED outsideSpec

\* GET /feature-importance (of the Random Forest); the last await of
\* initializeModels
loadFeatureImportance ==
  /\ pc = "init_feature"
  /\ feature_importance.status = "success"
  /\ pc' = "idle"
  /\ loading' = FALSE
  /\ UNCHANGED <<srvVars, predictionInput, histVars>>
  /\ UNCHANGED outsideSpec

\* the Run Hyperparameter Tuning button (disabled while loading):
\* POST /hyperparameter-tuning
runHyperparameterTuning ==
  /\ ~loading
  /\ loading' = TRUE
  /\ pc' = "tune"
  /\ UNCHANGED <<srvVars, predictionInput, histVars>>
  /\ UNCHANGED outsideSpec

\* the Predict VM Placement button (never disabled): POST /predict carries
\* predictionInput and the service answers it from the registry as it is now
predictPlacement ==
  /\ served' = <<[input |-> predictionInput, data |-> predict(predictionInput)]>>
  /\ UNCHANGED <<srvVars, pageVars, published, runStart, firstRun, lastKind>>
  /\ UNCHANGED outsideSpec

\* onChange of the CPU input and of the VM select
setCpu ==
  /\ \E c \in CpuValues : predictionInput' = [predictionInput EXCEPT !.cpu = c]
  /\ predictionInput' # predictionInput
  /\ served' = <<>>
  /\ UNCHANGED <<srvVars, loading, pc, published, runStart, firstRun, lastKind>>
  /\ UNCHANGED outsideSpec

setVm ==
  /\ \E v \in VmOptions : predictionInput' = [predictionInput EXCEPT !.vm = v]
  /\ predictionInput' # predictionInput
  /\ served' = <<>>
  /\ UNCHANGED <<srvVars, loading, pc, published, runStart, firstRun, lastKind>>
  /\ UNCHANGED outsideSpec

Next ==
  \/ TrainAllStart \/ TrainStep \/ TrainAllDone
  \/ TuneStart \/ TuneSkip \/ TuneFit \/ TuneFitFailure \/ TuneDone
  \/ initializeModels
  \/ loadResults \/ loadPerformance \/ loadFeatureImportance
  \/ runHyperparameterTuning
  \/ predictPlacement
  \/ setCpu \/ setVm

Spec == Init /\ [][Next]_vars

TypeOK ==
  /\ trained \in [Models -> BOOLEAN]
  /\ best_model \in Models \cup {NoModel}
  /\ srvRun \in {"idle", "training", "tuning"}
  /\ lastKind \in {"none", "training", "tuning"}
  /\ loading \in BOOLEAN
  /\ Len(served) <= 1
  /\ Len(file) <= 1
  /\ dataset \in Datasets \cup {NoDataset}
  /\ fallback \in {"none", "absent", "DataFormatError"}
  /\ predictsInFlight \in 0..MaxInFlight
  /\ Len(body) <= 1
  /\ line \in {"off", "check_python", "check_node", "check_npm", "run",
               "running", "exited"}
  /\ status \in {NoStatus, 0, 1}
  /\ mounted \in BOOLEAN
  /\ Cardinality(pending) <= MaxPending
  /\ Len(metricsHistory) <= arrivals
  /\ sim_loading \in BOOLEAN
  /\ Len(simulation) <= 1
  /\ Len(mlResult) <= 1
  /\ Len(predictionResult) <= 1
  /\ runsInFlight \in 0..1
  /\ opt_loading \in BOOLEAN
  /\ Len(placement) <= 1
  /\ Len(backendLog) <= MaxLog

\* ------------------------------------------- the MLComparison page, whole
\* The page against a server that may answer any request with status
\* success, with status error and a message, or not at all (the fetch or the
\* parse of the body rejects).
Payloads == 1..MaxPayload

Outcomes == {"success", "error", "failed"}

\* the message of a response whose status is not success
ServerMessage == "message"

Response(endpoint, outcome) == <<[endpoint |-> endpoint, outcome |-> outcome]>>

outsidePage == <<srvVars, histVars, predictionInput, formVars, elsewhere>>

\* variant: a new initialization clears the prediction shown
page_initializeModelsClearsResult ==
  /\ ~loading
  /\ loading' = TRUE
  /\ error' = Null
  /\ predictionResult' = <<>>
  /\ pc' = "initialize"
  /\ runsInFlight' = runsInFlight + 1
  /\ handled' = <<>>
  /\ UNCHANGED <<models, performance, featureImportance, predictsInFlight,
                 outsidePage>>

\* lines 117-119: the Initialize Models button, disabled while loading
page_initializeModels ==
  /\ ~loading
  /\ loading' = TRUE
  /\ error' = Null
  /\ pc' = "initialize"
  /\ runsInFlight' = runsInFlight + 1
  /\ handled' = <<>>
  /\ UNCHANGED <<models, performance, featureImportance, predictionResult,
                 predictsInFlight, outsidePage>>

\* lines 121-142: the await of POST /initialize resumes
page_initializeResumes ==
  /\ pc = "initialize"
  /\ \E o \in Outcomes :
       /\ handled' = Response("initialize", o)
       /\ IF o = "success"
          THEN /\ pc' = "init_results"
               /\ UNCHANGED <<error, loading, runsInFlight>>
          ELSE /\ error' = IF o = "error" THEN ServerMessage
                           ELSE "Failed to initialize models"
               /\ loading' = FALSE
               /\ runsInFlight' = runsInFlight - 1
               /\ pc' = "idle"
  /\ UNCHANGED <<models, performance, featureImportance, predictionResult,
                 predictsInFlight, outsidePage>>

\* lines 145-159: loadResults, awaited by both run handlers
page_loadResults ==
  /\ pc \in {"init_results", "tune_results"}
  /\ \E o \in Outcomes :
       /\ handled' = Response("results", o)
       /\ IF o = "success"
          THEN \E d \in Payloads : models' = d
          ELSE UNCHANGED models
  /\ pc' = IF pc = "init_results" THEN "init_performance" ELSE "tune_performance"
  /\ UNCHANGED <<error, loading, runsInFlight, performance, featureImportance,
                 predictionResult, predictsInFlight, outsidePage>>

\* lines 161-172: loadPerformance; the last await of runHyperparameterTuning,
\* whose finally block follows (line 208)
page_loadPerformance ==
  /\ pc \in {"init_performance", "tune_performance"}
  /\ \E o \in Outcomes :
       /\ handled' = Response("performance", o)
       /\ IF o = "success"
          THEN \E d \in Payloads : performance' = d
          ELSE UNCHANGED performance
  /\ IF pc = "init_performance"
     THEN /\ pc' = "init_feature"
          /\ UNCHANGED <<loading, runsInFlight>>
     ELSE /\ pc' = "idle"
          /\ loading' = FALSE
          /\ runsInFlight' = runsInFlight - 1
  /\ UNCHANGED <<error, models, featureImportance, predictionResult,
                 predictsInFlight, outsidePage>>

\* lines 174-185: loadFeatureImportance; the last await of initializeModels,
\* whose finally block follows (line 141)
page_loadFeatureImportance ==
  /\ pc = "init_feature"
  /\ \E o \in Outcomes :
       /\ handled' = Response("feature-importance", o)
       /\ IF o = "success"
          THEN \E d \in Payloads : featureImportance' = d
          ELSE UNCHANGED featureImportance
  /\ pc' = "idle"
  /\ loading' = FALSE
  /\ runsInFlight' = runsInFlight - 1
  /\ UNCHANGED <<error, models, performance, predictionResult,
                 predictsInFlight, outsidePage>>

\* variant: the Run Hyperparameter Tuning button is enabled while loading
page_runHyperparameterTuningAnyTime ==
  /\ loading' = TRUE
  /\ pc' = "tune"
  /\ runsInFlight' = runsInFlight + 1
  /\ handled' = <<>>
  /\ UNCHANGED <<error, models, performance, featureImportance, predictionResult,
                 predictsInFlight, outsidePage>>

\* lines 187-188: the Run Hyperparameter Tuning button, disabled while loading
page_runHyperparameterTuning ==
  /\ ~loading
  /\ loading' = TRUE
  /\ pc' = "tune"
  /\ runsInFlight' = runsInFlight + 1
  /\ handled' = <<>>
  /\ UNCHANGED <<error, models, performance, featureImportance, predictionResult,
                 predictsInFlight, outsidePage>>

\* lines 189-209: the await of POST /hyperparameter-tuning resumes
page_tuningResumes ==
  /\ pc = "tune"
  /\ \E o \in Outcomes :
       /\ handled' = Response("hyperparameter-tuning", o)
       /\ IF o = "success"
          THEN /\ pc' = "tune_results"
               /\ UNCHANGED <<error, loading, runsInFlight>>
          ELSE /\ error' = IF o = "error" THEN ServerMessage
                           ELSE "Failed to run hyperparameter tuning"
               /\ loading' = FALSE
               /\ runsInFlight' = runsInFlight - 1
               /\ pc' = "idle"
  /\ UNCHANGED <<models, performance, featureImportance, predictionResult,
                 predictsInFlight, outsidePage>>

\* lines 212-220: the Predict VM Placement button (never disabled) sends
\* POST /predict
page_predictPlacement ==
  /\ predictsInFlight < MaxInFlight
  /\ predictsInFlight' = predictsInFlight + 1
  /\ handled' = <<>>
  /\ UNCHANGED <<error, loading, pc, runsInFlight, models, performance,
                 featureImportance, predictionResult, outsidePage>>

\* variant: a successful prediction clears the error
page_predictResumesClearsError ==
  /\ predictsInFlight > 0
  /\ predictsInFlight' = predictsInFlight - 1
  /\ \E o \in Outcomes :
       /\ handled' = Response("predict", o)
       /\ IF o = "success"
          THEN /\ \E d \in Payloads : predictionResult' = <<d>>
               /\ error' = Null
          ELSE /\ error' = IF o = "error" THEN ServerMessage
                           ELSE "Failed to make prediction"
               /\ UNCHANGED predictionResult
  /\ UNCHANGED <<loading, pc, runsInFlight, models, performance,
                 featureImportance, outsidePage>>

\* lines 222-231: the await of POST /predict resumes
page_predictResumes ==
  /\ predictsInFlight > 0
  /\ predictsInFlight' = predictsInFlight - 1
  /\ \E o \in Outcomes :
       /\ handled' = Response("predict", o)
       /\ IF o = "success"
          THEN /\ \E d \in Payloads : predictionResult' = <<d>>
               /\ UNCHANGED error
          ELSE /\ error' = IF o = "error" THEN ServerMessage
                           ELSE "Failed to make prediction"
               /\ UNCHANGED predictionResult
  /\ UNCHANGED <<loading, pc, runsInFlight, models, performance,
                 featureImportance, outsidePage>>

\* line 313: the Dismiss button of the banner, rendered when error is set
Dismiss ==
  /\ error # Null
  /\ error' = Null
  /\ handled' = <<>>
  /\ UNCHANGED <<loading, pc, runsInFlight, models, performance,
                 featureImportance, predictionResult, predictsInFlight, outsidePage>>

PageInit ==
  /\ Init
  /\ file = <<>>

PageNext ==
  \/ page_initializeModels \/ page_initializeResumes
  \/ page_loadResults \/ page_loadPerformance \/ page_loadFeatureImportance
  \/ page_runHyperparameterTuning \/ page_tuningResumes
  \/ page_predictPlacement \/ page_predictResumes
  \/ Dismiss

PageSpec == PageInit /\ [][PageNext]_vars

\* ------------------------------ the prediction form of the MLComparison page
\* parseFloat of a text that holds no number
NaN == -1

\* JSON's null
JsonNull == -2

\* what a number input holds: no number, or the text of one
Texts(values) == {<<>>} \cup {<<n>> : n \in values}

parseFloat(t) == IF t = <<>> THEN NaN ELSE t[1]

\* JSON.stringify of an object of numbers and strings, as the receiver parses
\* it: every own key is kept, NaN is written as null
JSONStringify(obj) ==
  [k \in DOMAIN obj |-> IF k # "vm" /\ obj[k] = NaN THEN JsonNull ELSE obj[k]]

outsideForm == <<srvVars, histVars, loading, pc, displayVars, elsewhere>>

\* variant: the edit sets the state to the edited key alone
form_setCpuOnly ==
  /\ \E t \in Texts({MinCpu, DefaultCpu}) :
       predictionInput' = [cpu |-> parseFloat(t)]
  /\ predictionInput' # predictionInput
  /\ UNCHANGED <<body, outsideForm>>

\* lines 389-398: onChange of the CPU input
form_setCpu ==
  /\ \E t \in Texts({MinCpu, DefaultCpu}) :
       predictionInput' = [predictionInput EXCEPT !.cpu = parseFloat(t)]
  /\ predictionInput' # predictionInput
  /\ UNCHANGED <<body, outsideForm>>

\* lines 402-413: onChange of the memory input
form_setMemory ==
  /\ \E t \in Texts({MinMemory, DefaultMemory}) :
       predictionInput' = [predictionInput EXCEPT !.memory = parseFloat(t)]
  /\ predictionInput' # predictionInput
  /\ UNCHANGED <<body, outsideForm>>

\* lines 415-428: onChange of the network I/O input
form_setNetworkIo ==
  /\ \E t \in Texts({MinNetworkIo, DefaultNetworkIo}) :
       predictionInput' = [predictionInput EXCEPT !.network_io = parseFloat(t)]
  /\ predictionInput' # predictionInput
  /\ UNCHANGED <<body, outsideForm>>

\* lines 430-443: onChange of the power input
form_setPower ==
  /\ \E t \in Texts({MinPower, DefaultPower}) :
       predictionInput' = [predictionInput EXCEPT !.power = parseFloat(t)]
  /\ predictionInput' # predictionInput
  /\ UNCHANGED <<body, outsideForm>>

\* lines 446-456: onChange of the VM select
form_setVm ==
  /\ \E v \in VmOptions : predictionInput' = [predictionInput EXCEPT !.vm = v]
  /\ predictionInput' # predictionInput
  /\ UNCHANGED <<body, outsideForm>>

\* lines 212-220: the request predictPlacement sends
form_predictPlacement ==
  /\ body' = <<JSONStringify(predictionInput)>>
  /\ UNCHANGED <<predictionInput, outsideForm>>

FormNext ==
  \/ form_setCpu \/ form_setMemory \/ form_setNetworkIo \/ form_setPower
  \/ form_setVm
  \/ form_predictPlacement

FormSpec == PageInit /\ [][FormNext]_vars

\* ------------------------------------------------------ the start-up scripts
\* start_project.sh and start_project.bat, each on a machine where any of the
\* commands may be missing
Commands == {"python3", "python", "node", "npm"}

outsideScript == <<srvVars, pageVars, histVars, displayVars, formVars, dashVars,
                   simVars, optVars>>

ScriptInit ==
  /\ script \in {"sh", "bat"}
  /\ found \in SUBSET Commands
  /\ line = "check_python"
  /\ PYTHON_CMD = ""
  /\ printed = {}
  /\ started = <<>>
  /\ status = NoStatus

\* exit 1 after the message (the .bat waits for a key first)
Fail(message) ==
  /\ printed' = printed \cup {message}
  /\ status' = 1
  /\ line' = "exited"
  /\ UNCHANGED <<PYTHON_CMD, started>>

\* variant: python is taken when it exists, python3 only otherwise
sh_checkPythonFirst ==
  /\ script = "sh"
  /\ line = "check_python"
  /\ IF "python" \notin found
     THEN IF "python3" \notin found
          THEN Fail("Python is not installed or not in PATH")
          ELSE /\ PYTHON_CMD' = "python3"
               /\ line' = "check_node"
               /\ UNCHANGED <<printed, started, status>>
     ELSE /\ PYTHON_CMD' = "python"
          /\ line' = "check_node"
          /\ UNCHANGED <<printed, started, status>>
  /\ UNCHANGED <<script, found, outsideScript>>

\* start_project.sh lines 10-20
sh_checkPython ==
  /\ script = "sh"
  /\ line = "check_python"
  /\ IF "python3" \notin found
     THEN IF "python" \notin found
          THEN Fail("Python is not installed or not in PATH")
          ELSE /\ PYTHON_CMD' = "python"
               /\ line' = "check_node"
               /\ UNCHANGED <<printed, started, status>>
     ELSE /\ PYTHON_CMD' = "python3"
          /\ line' = "check_node"
          /\ UNCHANGED <<printed, started, status>>
  /\ UNCHANGED <<script, found, outsideScript>>

\* start_project.sh lines 23-27
sh_checkNode ==
  /\ script = "sh"
  /\ line = "check_node"
  /\ IF "node" \notin found
     THEN Fail("Node.js is not installed or not in PATH")
     ELSE /\ line' = "check_npm"
          /\ UNCHANGED <<PYTHON_CMD, printed, started, status>>
  /\ UNCHANGED <<script, found, outsideScript>>

\* start_project.sh lines 30-34
sh_checkNpm ==
  /\ script = "sh"
  /\ line = "check_npm"
  /\ IF "npm" \notin found
     THEN Fail("npm is not installed or not in PATH")
     ELSE /\ line' = "run"
          /\ UNCHANGED <<PYTHON_CMD, printed, started, status>>
  /\ UNCHANGED <<script, found, outsideScript>>

\* start_project.sh lines 36-44: chmod, then start_project.py runs under
\* $PYTHON_CMD
sh_run ==
  /\ script = "sh"
  /\ line = "run"
  /\ started' = <<PYTHON_CMD>>
  /\ line' = "running"
  /\ UNCHANGED <<script, found, PYTHON_CMD, printed, status, outsideScript>>

\* start_project.sh lines 46-47: start_project.py has ended, with whatever
\* status; the script ends with the status of its last echo
sh_end ==
  /\ script = "sh"
  /\ line = "running"
  /\ status' = 0
  /\ line' = "exited"
  /\ UNCHANGED <<script, found, PYTHON_CMD, printed, started, outsideScript>>

\* start_project.bat lines 9-15
bat_checkPython ==
  /\ script = "bat"
  /\ line = "check_python"
  /\ IF "python" \notin found
     THEN Fail("Python is not installed or not in PATH")
     ELSE /\ line' = "check_node"
          /\ UNCHANGED <<PYTHON_CMD, printed, started, status>>
  /\ UNCHANGED <<script, found, outsideScript>>

\* start_project.bat lines 18-24
bat_checkNode ==
  /\ script = "bat"
  /\ line = "check_node"
  /\ IF "node" \notin found
     THEN Fail("Node.js is not installed or not in PATH")
     ELSE /\ line' = "check_npm"
          /\ UNCHANGED <<PYTHON_CMD, printed, started, status>>
  /\ UNCHANGED <<script, found, outsideScript>>

\* start_project.bat lines 27-33
bat_checkNpm ==
  /\ script = "bat"
  /\ line = "check_npm"
  /\ IF "npm" \notin found
     THEN Fail("npm is not installed or not in PATH")
     ELSE /\ line' = "run"
          /\ UNCHANGED <<PYTHON_CMD, printed, started, status>>
  /\ UNCHANGED <<script, found, outsideScript>>

\* start_project.bat lines 35-40
bat_run ==
  /\ script = "bat"
  /\ line = "run"
  /\ started' = <<"python">>
  /\ line' = "running"
  /\ UNCHANGED <<script, found, PYTHON_CMD, printed, status, outsideScript>>

\* start_project.bat lines 42-44: the pause, then the end of the file
bat_end ==
  /\ script = "bat"
  /\ line = "running"
  /\ status' = 0
  /\ line' = "exited"
  /\ UNCHANGED <<script, found, PYTHON_CMD, printed, started, outsideScript>>

ScriptSpecInit ==
  /\ ScriptInit
  /\ OptInit
  /\ DashOff
  /\ SimInit
  /\ DisplayInit
  /\ body = <<>>
  /\ MLStart
  /\ file = <<>>

ScriptNext ==
  \/ sh_checkPython \/ sh_checkNode \/ sh_checkNpm \/ sh_run \/ sh_end
  \/ bat_checkPython \/ bat_checkNode \/ bat_checkNpm \/ bat_run \/ bat_end

ScriptSpec == ScriptSpecInit /\ [][ScriptNext]_vars

\* ------------------------------------------------------------ the Dashboard
\* Dashboard.jsx lines 26-43: the polling effect, its interval and the
\* responses of its requests.  Time passes in seconds; the seconds and the
\* requests of an effect are counted up to MaxElapsed seconds.
outsideDash == <<srvVars, pageVars, histVars, displayVars, formVars, scriptVars,
                 simVars, optVars>>

\* the last n elements of a sequence: slice(-n)
Slice(q, n) == IF Len(q) <= n THEN q ELSE SubSeq(q, Len(q) - n + 1, Len(q))

\* the request fetchMetrics sends, line 33; k tells apart the requests that
\* are pending together
Request(e, b) ==
  [effect |-> e, base |-> b,
   k |-> CHOOSE k \in 1..MaxPending : \A r \in pending : r.k # k]

\* the effect of lines 30-43 runs on mount: one fetchMetrics, then setInterval
DashInit ==
  /\ mounted = TRUE
  /\ apiBase = 1
  /\ metricsHistory = <<>>
  /\ effect = 1
  /\ timers = {[effect |-> 1, base |-> 1, since |-> 0]}
  /\ pending = {[effect |-> 1, base |-> 1, k |-> 1]}
  /\ arrivals = 0
  /\ sampleFrom = 0
  /\ elapsed = 0
  /\ sentByEffect = 1

\* a second passes; an interval that is due fires first
second ==
  /\ mounted
  /\ \A t \in timers : t.since < PollPeriod
  /\ timers' = {[t EXCEPT !.since = @ + 1] : t \in timers}
  /\ elapsed' = IF elapsed < MaxElapsed THEN elapsed + 1 ELSE elapsed
  /\ UNCHANGED <<mounted, apiBase, metricsHistory, effect, pending,
                 arrivals, sampleFrom, sentByEffect, outsideDash>>

\* line 41: the interval calls fetchMetrics, which sends its request (line 33)
intervalFires ==
  /\ Cardinality(pending) < MaxPending
  /\ \E t \in timers :
       /\ t.since = PollPeriod
       /\ timers' = (timers \ {t}) \cup {[t EXCEPT !.since = 0]}
       /\ pending' = pending \cup {Request(t.effect, t.base)}
       /\ sentByEffect' = IF t.effect = effect /\ elapsed < MaxElapsed
                          THEN sentByEffect + 1
                          ELSE sentByEffect
  /\ UNCHANGED <<mounted, apiBase, metricsHistory, effect, arrivals, sampleFrom,
                 elapsed, outsideDash>>

\* the body of a response, as the n-th sample to arrive
Sample(r) == [n |-> arrivals + 1]

\* variant: the new sample is appended to the whole history
fetchMetricsAppendsAll ==
  /\ arrivals < MaxSamples
  /\ \E r \in pending :
       /\ pending' = pending \ {r}
       /\ IF mounted
          THEN /\ metricsHistory' = Append(metricsHistory, Sample(r))
               /\ arrivals' = arrivals + 1
               /\ sampleFrom' = r.effect
          ELSE UNCHANGED <<metricsHistory, arrivals, sampleFrom>>
  /\ UNCHANGED <<mounted, apiBase, effect, timers, elapsed, sentByEffect,
                 outsideDash>>

\* lines 34-35: the awaits of fetchMetrics resume with the parsed body and the
\* sample is appended; the update of an unmounted component is dropped
fetchMetricsResolves ==
  /\ arrivals < MaxSamples
  /\ \E r \in pending :
       /\ pending' = pending \ {r}
       /\ IF mounted
          THEN /\ metricsHistory' =
                    Append(Slice(metricsHistory, KeepLast), Sample(r))
               /\ arrivals' = arrivals + 1
               /\ sampleFrom' = r.effect
          ELSE UNCHANGED <<metricsHistory, arrivals, sampleFrom>>
  /\ UNCHANGED <<mounted, apiBase, effect, timers, elapsed, sentByEffect,
                 outsideDash>>

\* lines 36-38: the fetch or the parse of the body rejects
fetchMetricsFails ==
  /\ \E r \in pending : pending' = pending \ {r}
  /\ UNCHANGED <<mounted, apiBase, metricsHistory, effect, timers,
                 arrivals, sampleFrom, elapsed, sentByEffect, outsideDash>>

\* variant: the cleanup leaves the interval running
apiBaseChangesKeepsInterval ==
  /\ mounted
  /\ effect < MaxEffects
  /\ Cardinality(pending) < MaxPending
  /\ \A t \in timers : t.since < PollPeriod
  /\ apiBase' = apiBase + 1
  /\ timers' = timers \cup {[effect |-> effect + 1, base |-> apiBase', since |-> 0]}
  /\ pending' = pending \cup {Request(effect + 1, apiBase')}
  /\ effect' = effect + 1
  /\ elapsed' = 0
  /\ sentByEffect' = 1
  /\ UNCHANGED <<mounted, metricsHistory, arrivals, sampleFrom, outsideDash>>

\* line 43: apiBase changes to a value it has not had; the cleanup of line 42
\* clears the interval and the effect runs again (lines 40-41)
apiBaseChanges ==
  /\ mounted
  /\ effect < MaxEffects
  /\ Cardinality(pending) < MaxPending
  /\ \A t \in timers : t.since < PollPeriod
  /\ apiBase' = apiBase + 1
  /\ timers' = {t \in timers : t.effect # effect}
                  \cup {[effect |-> effect + 1, base |-> apiBase', since |-> 0]}
  /\ pending' = pending \cup {Request(effect + 1, apiBase')}
  /\ effect' = effect + 1
  /\ elapsed' = 0
  /\ sentByEffect' = 1
  /\ UNCHANGED <<mounted, metricsHistory, arrivals, sampleFrom, outsideDash>>

\* line 42: the cleanup on unmount
unmount ==
  /\ mounted
  /\ mounted' = FALSE
  /\ timers' = {t \in timers : t.effect # effect}
  /\ UNCHANGED <<apiBase, metricsHistory, effect, pending, arrivals, sampleFrom,
                 elapsed, sentByEffect, outsideDash>>

DashSpecInit ==
  /\ DashInit
  /\ OptInit
  /\ ScriptOff
  /\ SimInit
  /\ DisplayInit
  /\ body = <<>>
  /\ MLStart
  /\ file = <<>>

DashNext ==
  \/ second \/ intervalFires
  \/ fetchMetricsResolves \/ fetchMetricsFails
  \/ apiBaseChanges \/ unmount

DashSpec == DashSpecInit /\ [][DashNext]_vars

\* ------------------------------------------------------ the MLSimulation page
\* mlSimulation.jsx lines 3-25, against a server that answers each request with
\* any body or not at all.
VmSamples == 1..NumVmSamples

\* the bodies /api/v1/predict answers with: a host under the key host, under
\* the key predicted_host, or under neither ("" is a key that is absent)
HostNames == {Hosts[i] : i \in 1..NumHosts}

Preds == [host : {""} \cup HostNames, predicted_host : {""} \cup HostNames,
          rest : {"{}", "{error}"}]

\* line 23: pred.host || pred.predicted_host || JSON.stringify(pred)
ResultText(pred) ==
  IF pred.host # "" THEN pred.host
  ELSE IF pred.predicted_host # "" THEN pred.predicted_host
  ELSE pred.rest

outsideSim == <<srvVars, pageVars, histVars, displayVars, formVars, scriptVars,
                dashVars, optVars>>

\* variant: a run leaves the former mlResult in place
handleSimulateKeepsResult ==
  /\ ~sim_loading
  /\ sim_loading' = TRUE
  /\ sim_sent' = <<[endpoint |-> "simulate_vm", body |-> 0]>>
  /\ sim_pc' = "fetch_vm"
  /\ UNCHANGED <<simulation, mlResult, vmSample, outsideSim>>

\* lines 8-12: the Simulate & Place VM button, disabled while loading
handleSimulate ==
  /\ ~sim_loading
  /\ sim_loading' = TRUE
  /\ mlResult' = <<>>
  /\ sim_sent' = <<[endpoint |-> "simulate_vm", body |-> 0]>>
  /\ sim_pc' = "fetch_vm"
  /\ UNCHANGED <<simulation, vmSample, outsideSim>>

\* line 12: the response of simulate_vm arrives
simulateVmResponds ==
  /\ sim_pc = "fetch_vm"
  /\ sim_pc' = "json_vm"
  /\ UNCHANGED <<simulation, mlResult, sim_loading, vmSample, sim_sent, outsideSim>>

\* lines 13-21: its body is parsed, stored and sent to predict
simulateVmParsed ==
  /\ sim_pc = "json_vm"
  /\ \E v \in VmSamples :
       /\ vmSample' = v
       /\ simulation' = <<v>>
       /\ sim_sent' = Append(sim_sent, [endpoint |-> "predict", body |-> v])
  /\ sim_pc' = "fetch_predict"
  /\ UNCHANGED <<mlResult, sim_loading, outsideSim>>

\* line 22: the response of predict arrives
predictResponds ==
  /\ sim_pc = "fetch_predict"
  /\ sim_pc' = "json_predict"
  /\ UNCHANGED <<simulation, mlResult, sim_loading, vmSample, sim_sent, outsideSim>>

\* lines 22-24: its body is parsed and shown
predictParsed ==
  /\ sim_pc = "json_predict"
  /\ \E pred \in Preds :
       mlResult' = <<[text |-> ResultText(pred), body |-> sim_sent[2].body]>>
  /\ sim_loading' = FALSE
  /\ sim_pc' = "idle"
  /\ UNCHANGED <<simulation, vmSample, sim_sent, outsideSim>>

\* lines 12, 13, 17 and 22: a fetch or a parse rejects; nothing catches it
awaitRejects ==
  /\ sim_pc \in {"fetch_vm", "json_vm", "fetch_predict", "json_predict"}
  /\ sim_pc' = "rejected"
  /\ UNCHANGED <<simulation, mlResult, sim_loading, vmSample, sim_sent, outsideSim>>

SimSpecInit ==
  /\ SimInit
  /\ OptInit
  /\ ScriptOff
  /\ DashOff
  /\ DisplayInit
  /\ body = <<>>
  /\ MLStart
  /\ file = <<>>

SimNext ==
  \/ handleSimulate
  \/ simulateVmResponds \/ simulateVmParsed
  \/ predictResponds \/ predictParsed
  \/ awaitRejects

SimSpec == SimSpecInit /\ [][SimNext]_vars

\* the steps of a run that is under way: every await of lines 12, 13, 17 and
\* 22 settles, by resolving or by rejecting
SimSettles ==
  \/ simulateVmResponds \/ simulateVmParsed
  \/ predictResponds \/ predictParsed
  \/ awaitRejects

\* a promise that is awaited settles in the end (the parse of a body that has
\* arrived always does; a fetch does once the browser gives the connection
\* up); nothing obliges the user to press the button
SimFairSpec == SimSpec /\ WF_vars(SimSettles)

\* --------------------------------------------------------- the Optimize page
\* Optimize.jsx lines 4-58 and the controls of lines 73-106, against a server
\* that answers each request with any status and body or not at all.  Of the
\* form, vm and cpu are kept; the weights are not.
OptCpuValues == {0, DefaultCpu, 100}

\* the values of the vms key of the body of GET /api/v1/vms
VmLists == {SubSeq(AllVmOptions, 1, k) : k \in 0..NumVmOptions}

\* the values of the error key of a body: "" stands for an absent key and for
\* an empty string alike, both falsy
ErrorKeys == {"", ServerMessage}

\* line 43: data.error || 'Prediction failed'
ErrorOr(e) == IF e = "" THEN "Prediction failed" ELSE e

outsideOpt == <<srvVars, pageVars, histVars, displayVars, formVars, scriptVars,
                dashVars, simVars>>

\* the page is on screen: no render has thrown
Rendered == vms_pc # "render_throws"

\* line 18: the response of GET /api/v1/vms arrives
fetchVMsResponds ==
  /\ vms_pc = "fetch"
  /\ vms_pc' = "json"
  /\ opt_last' = "fetchVMs"
  /\ UNCHANGED <<vmOptions, form, placement, opt_loading, opt_error, backendLog,
                 opt_pc, opt_inFlight, outsideOpt>>

\* lines 19-22: its body is parsed and holds a list under vms
fetchVMsParsed ==
  /\ vms_pc = "json"
  /\ \E vms \in VmLists :
       /\ vmOptions' = vms
       /\ form' = [form EXCEPT !.vm = IF vms # <<>> THEN vms[1] ELSE ""]
  /\ backendLog' = Append(backendLog, "VM Fetch")
  /\ vms_pc' = "done"
  /\ opt_last' = "fetchVMs"
  /\ UNCHANGED <<placement, opt_loading, opt_error, opt_pc, opt_inFlight,
                 outsideOpt>>

\* lines 19-22: its body holds no vms key; data.vms[0] is evaluated by the
\* updater of setForm, in the next render, outside the try block
fetchVMsNoList ==
  /\ vms_pc = "json"
  /\ vmOptions' = <<>>
  /\ backendLog' = Append(backendLog, "VM Fetch")
  /\ vms_pc' = "render_throws"
  /\ opt_last' = "fetchVMs"
  /\ UNCHANGED <<form, placement, opt_loading, opt_error, opt_pc, opt_inFlight,
                 outsideOpt>>

\* lines 23-26: the fetch or the parse of the body rejects
fetchVMsFails ==
  /\ vms_pc \in {"fetch", "json"}
  /\ opt_error' = "Cannot load VM options from ML server."
  /\ backendLog' = Append(backendLog, "ERROR")
  /\ vms_pc' = "failed"
  /\ opt_last' = "fetchVMs"
  /\ UNCHANGED <<vmOptions, form, placement, opt_loading, opt_pc, opt_inFlight,
                 outsideOpt>>

\* line 73: the VM select, whose options are vmOptions
opt_setVm ==
  /\ Rendered
  /\ \E i \in 1..Len(vmOptions) :
       /\ vmOptions[i] # form.vm
       /\ form' = [form EXCEPT !.vm = vmOptions[i]]
  /\ opt_last' = "setForm"
  /\ UNCHANGED <<vmOptions, placement, opt_loading, opt_error, backendLog, vms_pc,
                 opt_pc, opt_inFlight, outsideOpt>>

\* line 79: the CPU input
opt_setCpu ==
  /\ Rendered
  /\ \E c \in OptCpuValues \ {form.cpu} : form' = [form EXCEPT !.cpu = c]
  /\ opt_last' = "setForm"
  /\ UNCHANGED <<vmOptions, placement, opt_loading, opt_error, backendLog, vms_pc,
                 opt_pc, opt_inFlight, outsideOpt>>

\* variant: handlePredict leaves the former placement in place
handlePredictKeepsPlacement ==
  /\ Rendered
  /\ ~opt_loading
  /\ opt_last' = "handlePredict"
  /\ IF form.vm = ""
     THEN UNCHANGED <<opt_loading, opt_error, opt_pc, opt_inFlight>>
     ELSE /\ Len(backendLog) < MaxLog
          /\ opt_loading' = TRUE
          /\ opt_error' = ""
          /\ opt_pc' = "fetch"
          /\ opt_inFlight' = opt_inFlight + 1
  /\ UNCHANGED <<vmOptions, form, placement, backendLog, vms_pc, outsideOpt>>

\* lines 31-37: handlePredict up to its first await.  The Predict Placement
\* button is disabled while loading (line 104)
handlePredict ==
  /\ Rendered
  /\ ~opt_loading
  /\ opt_last' = "handlePredict"
  /\ IF form.vm = ""
     THEN UNCHANGED <<placement, opt_loading, opt_error, opt_pc, opt_inFlight>>
     ELSE /\ Len(backendLog) < MaxLog
          /\ opt_loading' = TRUE
          /\ opt_error' = ""
          /\ placement' = <<>>
          /\ opt_pc' = "fetch"
          /\ opt_inFlight' = opt_inFlight + 1
  /\ UNCHANGED <<vmOptions, form, backendLog, vms_pc, outsideOpt>>

\* line 37: the response of POST /api/v1/predict arrives
handlePredictFetched ==
  /\ opt_pc = "fetch"
  /\ opt_pc' = "json"
  /\ opt_last' = "handlePredict"
  /\ UNCHANGED <<vmOptions, form, placement, opt_loading, opt_error, backendLog,
                 vms_pc, opt_inFlight, outsideOpt>>

\* lines 42-57: the body is parsed; res.ok and the body decide the rest
handlePredictParsed ==
  /\ opt_pc = "json"
  /\ \/ \* res.ok and a body with objectives: lines 44-53
        /\ \E d \in Payloads : placement' = <<d>>
        /\ backendLog' = Append(backendLog, "Predict")
        /\ UNCHANGED opt_error
     \/ \* res.ok and a body without objectives: line 46 throws a TypeError
        /\ opt_error' = "Cannot read properties of undefined"
        /\ backendLog' = Append(backendLog, "ERROR")
        /\ UNCHANGED placement
     \/ \* an HTTP error status: line 43 throws
        /\ \E e \in ErrorKeys : opt_error' = ErrorOr(e)
        /\ backendLog' = Append(backendLog, "ERROR")
        /\ UNCHANGED placement
  /\ opt_loading' = FALSE
  /\ opt_pc' = "finished"
  /\ opt_inFlight' = opt_inFlight - 1
  /\ opt_last' = "handlePredict"
  /\ UNCHANGED <<vmOptions, form, vms_pc, outsideOpt>>

\* lines 37, 42 and 54-57: the fetch or the parse of the body rejects
handlePredictRejects ==
  /\ opt_pc \in {"fetch", "json"}
  /\ opt_error' = IF opt_pc = "fetch" THEN "Failed to fetch"
                  ELSE "Unexpected token"
  /\ backendLog' = Append(backendLog, "ERROR")
  /\ opt_loading' = FALSE
  /\ opt_pc' = "finished"
  /\ opt_inFlight' = opt_inFlight - 1
  /\ opt_last' = "handlePredict"
  /\ UNCHANGED <<vmOptions, form, placement, vms_pc, outsideOpt>>

OptSpecInit ==
  /\ OptInit
  /\ SimInit
  /\ ScriptOff
  /\ DashOff
  /\ DisplayInit
  /\ body = <<>>
  /\ MLStart
  /\ file = <<>>

OptNext ==
  \/ fetchVMsResponds \/ fetchVMsParsed \/ fetchVMsNoList \/ fetchVMsFails
  \/ opt_setVm \/ opt_setCpu
  \/ handlePredict \/ handlePredictFetched \/ handlePredictParsed
  \/ handlePredictRejects

OptSpec == OptSpecInit /\ [][OptNext]_vars

\* ----------------------------------------------------------------- claims
\* a step in which the service answers a predict request
PredictServed == served' # served /\ served' # <<>>

C2_PredictSucceedsOnceTrained ==
  (served # <<>> /\ lastKind # "none") => served[1].data.status = "success"

\* C3: every prediction is computed from what the last completed run
\* published: the estimators, the designation and the encoder it reads are
\* those of one completed run, also when a run is in flight.
C3_PredictionReadsOneSnapshot ==
  [][(PredictServed /\ served'[1].data.status = "success")
       => View = published]_vars

\* C4: after a completed run the designated best model is a trained model
\* and no model has a strictly higher recorded R2; /performance reports that
\* name, and so does every prediction served since the run completed.
C4_BestModelHasHighestR2 ==
  /\ (lastKind # "none" /\ srvRun = "idle") =>
       /\ best_model \in TrainedModels
       /\ \A m \in Models : metrics[m].R2 <= metrics[best_model].R2
       /\ get_performance.best_model = best_model
  /\ (served # <<>> /\ served[1].data.status = "success") =>
       served[1].data.prediction.best_model = best_model

C4_Witness ==
  /\ lastKind # "none"
  /\ srvRun = "idle"
  /\ best_model = ModelOrder[2]
  /\ metrics[ModelOrder[1]].R2 < metrics[ModelOrder[2]].R2
  /\ served # <<>>
  /\ served[1].data.status = "success"

\* C5: as long as no run completes, the designation and the recorded metrics
\* stay as they are: neither a request nor a step of a run in progress
\* changes them.
C5_ChangesOnlyAtCompletion ==
  [][~RunCompletes => (best_model' = best_model /\ metrics' = metrics)]_vars

\* C6: two predict requests with the same input and no run completing
\* between them get the same response.
C6_PredictIdempotent ==
  [][(PredictServed /\ served # <<>> /\ served[1].input = predictionInput)
       => served'[1].data = served[1].data]_vars

\* C7: a fit failure in a tuning run is recorded for the failing model only
\* and leaves that model's estimator, metrics and trained flag as they were
\* when the run started; the run goes on with the next model and ends only
\* by completing, after every model had its turn.
C7_FitFailureIsPerModel ==
  /\ [](\A m \in fit_failures :
          /\ estimator[m] = runStart.estimator[m]
          /\ metrics[m] = runStart.metrics[m]
          /\ trained[m] = runStart.trained[m])
  /\ [][(fit_failures' # fit_failures /\ fit_failures' # {}) =>
          /\ fit_failures' = fit_failures \cup {ModelOrder[srvIdx]}
          /\ srvRun' = "tuning"
          /\ srvIdx' = srvIdx + 1
          /\ UNCHANGED registryVars]_vars
  /\ [][(srvRun = "tuning" /\ srvRun' # "tuning") =>
          /\ srvIdx > NumModels
          /\ srvRun' = "idle"
          /\ lastKind' = "tuning"]_vars

C7_Witness ==
  /\ srvRun = "idle"
  /\ lastKind = "tuning"
  /\ fit_failures = {ModelOrder[1]}
  /\ estimator[ModelOrder[1]] = Fit(0)
  /\ estimator[ModelOrder[2]].cfg \in Configs

\* C8: a model whose parameter grid is empty has, during and after the
\* tuning run, the metrics it had when the run started.
C8_EmptyGridKeepsMetrics ==
  (srvRun = "tuning" \/ (srvRun = "idle" /\ lastKind = "tuning")) =>
    \A m \in Models : grid[m] = {} => metrics[m] = runStart.metrics[m]

C8_Witness ==
  /\ srvRun = "idle"
  /\ lastKind = "tuning"
  /\ grid[ModelOrder[1]] = {}
  /\ grid[ModelOrder[2]] # {}
  /\ metrics[ModelOrder[2]] # runStart.metrics[ModelOrder[2]]

\* C9: the registry always holds exactly the model names it was created
\* with, a trained flag never goes back to false, and a run changes nothing
\* of an entry but its trained flag, estimator and metrics.
C9_RegistryIsFixed ==
  /\ [](/\ DOMAIN trained = Models
        /\ DOMAIN estimator = Models
        /\ DOMAIN metrics = Models)
  /\ [][\A m \in Models : trained[m] => trained'[m]]_vars

C9_Witness ==
  /\ lastKind # "none"
  /\ srvRun = "training"
  /\ srvIdx > 1
  /\ \A m \in Models : trained[m] /\ estimator[m].fitted

HostCode(h) == CHOOSE c \in 0..(NumHosts - 1) : Hosts[c + 1] = h

Dist(a, b) == IF a < b THEN b - a ELSE a - b

C14_FailureSetsError ==
  /\ []((handled # <<>> /\ handled[1].outcome # "success") => error # Null)
  /\ [][Dismiss => error' = Null]_vars

\* the keys of the body of POST /predict
PredictKeys == {"cpu", "memory", "network_io", "power", "vm"}

\* C15: predictionInput holds exactly the five keys cpu, memory, network_io,
\* power and vm after any edits of the form, and so does the body of every
\* predict request the page sends.
C15_PredictBodyHasFiveKeys ==
  /\ DOMAIN predictionInput = PredictKeys
  /\ body # <<>> => DOMAIN body[1] = PredictKeys

\* a request sent after every field was edited, the CPU field left empty
C15_Witness ==
  /\ body # <<>>
  /\ body[1] = JSONStringify(predictionInput)
  /\ body[1].cpu = JsonNull
  /\ body[1].memory = MinMemory
  /\ body[1].network_io = MinNetworkIo
  /\ body[1].power = MinPower
  /\ body[1].vm # "VM1"

\* the interpreters the running script looks for
Interpreters == IF script = "sh" THEN {"python3", "python"} ELSE {"python"}

\* a requirement check of the running script fails
RequirementMissing ==
  \/ Interpreters \cap found = {}
  \/ "node" \notin found
  \/ "npm" \notin found

\* C16: start_project.py is run only when an interpreter, node and npm were
\* found; a script that ends with one of them missing has printed an error,
\* exits with status 1 and has not run start_project.py; start_project.sh
\* runs it under python3 when python3 exists and under python only otherwise.
C16_ChecksBeforeStart ==
  /\ started # <<>> =>
       /\ ~RequirementMissing
       /\ started[1] \in Interpreters \cap found
       /\ (script = "sh" /\ "python3" \in found) => started[1] = "python3"
  /\ (line = "exited" /\ RequirementMissing) =>
       /\ status = 1
       /\ printed # {}
       /\ started = <<>>
  /\ (line = "exited" /\ ~RequirementMissing) => started # <<>>

\* start_project.sh has stopped at the npm check with python3 chosen
C16_Witness ==
  /\ script = "sh"
  /\ line = "exited"
  /\ found = {"python3", "python", "node"}
  /\ PYTHON_CMD = "python3"
  /\ status = 1
  /\ started = <<>>

\* what metricsHistory holds at most: slice(-11) and the new sample
HistoryLimit == KeepLast + 1

\* C17: metricsHistory never holds more than 12 samples; it is the most
\* recent min(n, 12) of the n samples that arrived, in arrival order, and a
\* failed poll leaves it unchanged.
C17_HistoryIsLastTwelve ==
  /\ [](/\ Len(metricsHistory) <= HistoryLimit
        /\ Len(metricsHistory) =
             (IF arrivals < HistoryLimit THEN arrivals ELSE HistoryLimit)
        /\ \A i \in 1..Len(metricsHistory) :
             metricsHistory[i].n = arrivals - Len(metricsHistory) + i)
  /\ [][fetchMetricsFails => metricsHistory' = metricsHistory]_vars

\* a 13th sample has arrived and the oldest is gone
C17_Witness ==
  /\ arrivals > HistoryLimit
  /\ Len(metricsHistory) = HistoryLimit
  /\ metricsHistory[1].n = arrivals - KeepLast
  /\ metricsHistory[HistoryLimit].n = arrivals

\* an interval is due: its two seconds have passed and it has not fired yet
Due == IF \E t \in timers : t.since = PollPeriod THEN 1 ELSE 0

\* C18: the effect sends one request when it starts and one more for every
\* two seconds it has run; at most one interval is active, it is the one of
\* the current effect, and a request is only ever sent by the current effect
\* of a mounted Dashboard.
C18_PollsEveryTwoSeconds ==
  /\ [](/\ Cardinality(timers) <= 1
        /\ \A t \in timers : mounted /\ t.effect = effect /\ t.base = apiBase
        /\ (mounted /\ elapsed < MaxElapsed) =>
             sentByEffect + Due = 1 + (elapsed \div PollPeriod))
  /\ [][\A r \in pending' \ pending : mounted' /\ r.effect = effect']_vars

\* the second effect has run for two seconds and has sent its second request
C18_Witness ==
  /\ mounted
  /\ effect = 2
  /\ elapsed = PollPeriod
  /\ sentByEffect = 2
  /\ timers = {[effect |-> 2, base |-> apiBase, since |-> 0]}

\* C19: a sample is appended to metricsHistory only while the Dashboard is
\* mounted and only from a request of the current effect: no response to a
\* request sent before a cleanup is appended after it.
C19_NoSampleAfterCleanup ==
  [][metricsHistory' # metricsHistory =>
       /\ mounted
       /\ sampleFrom' = effect]_vars

\* C20: handleSimulate asks simulate_vm first and predict second; the body
\* of the predict request is the sample stored in simulation; mlResult is
\* null from the start of a run until the predict response, and an mlResult
\* that is shown answers the simulation that is shown.
C20_SimulateThenPredict ==
  /\ [](/\ sim_pc \in {"fetch_vm", "json_vm"} =>
             /\ mlResult = <<>>
             /\ Len(sim_sent) = 1
             /\ sim_sent[1].endpoint = "simulate_vm"
        /\ sim_pc \in {"fetch_predict", "json_predict"} =>
             /\ mlResult = <<>>
             /\ Len(sim_sent) = 2
             /\ sim_sent[1].endpoint = "simulate_vm"
             /\ sim_sent[2].endpoint = "predict"
             /\ simulation = <<sim_sent[2].body>>
        /\ mlResult # <<>> =>
             /\ simulation # <<>>
             /\ mlResult[1].body = simulation[1])
  /\ [][(mlResult' # mlResult /\ mlResult' # <<>>) => sim_pc = "json_predict"]_vars

\* a run has ended: the host shown answers the sample shown
C20_Witness ==
  /\ sim_pc = "idle"
  /\ ~sim_loading
  /\ simulation = <<2>>
  /\ mlResult # <<>>
  /\ mlResult[1].body = 2
  /\ mlResult[1].text \in HostNames
  /\ Len(sim_sent) = 2

\* C21: every handleSimulate run sets loading back to false in the end, whether
\* its two requests succeed or fail, so that the button, disabled while
\* loading, becomes usable again.
C21_LoadingReturnsToFalse == sim_loading ~> ~sim_loading

\* C22: in MLComparison loading is true exactly while an initializeModels or
\* runHyperparameterTuning call is in flight, at most one such call is in
\* flight at any time, and every call ends with loading false, whether it
\* succeeds, gets an error status or throws.
C22_LoadingWhileRunInFlight ==
  /\ [](/\ runsInFlight \in {0, 1}
        /\ loading <=> runsInFlight = 1
        /\ loading <=> pc # "idle")
  /\ [][runsInFlight' < runsInFlight => ~loading']_vars

\* a tuning run, started after the mount's initializeModels had ended, has
\* ended by a rejected request
C22_Witness ==
  /\ handled = Response("hyperparameter-tuning", "failed")
  /\ runsInFlight = 0
  /\ ~loading
  /\ models # Empty

\* C23: in MLComparison only initializeModels and Dismiss reset error to null;
\* runHyperparameterTuning and predictPlacement never clear it, so an error
\* set earlier is still displayed after a later tuning run or prediction that
\* succeeds.
C23_OnlyInitializeAndDismissClearError ==
  [][(error # Null /\ error' = Null) => (page_initializeModels \/ Dismiss)]_vars

\* a prediction has just succeeded and the error of the initialization that
\* failed before it is still displayed
C23_Witness ==
  /\ handled = Response("predict", "success")
  /\ predictionResult # <<>>
  /\ error = "Failed to initialize models"
  /\ pc = "idle"

\* C24: in MLComparison predictionResult is written only by a predictPlacement
\* call whose response has status success; a failed prediction, an
\* initializeModels run and a tuning run leave it unchanged, so a result
\* computed before a retraining stays displayed after the retraining.
C24_OnlySuccessfulPredictWritesResult ==
  [][predictionResult' # predictionResult =>
       /\ page_predictResumes
       /\ handled' = Response("predict", "success")]_vars

\* an initializeModels run has just completed, its last request answered
\* with success, and the prediction received before that is still displayed
C24_Witness ==
  /\ predictionResult # <<>>
  /\ handled = Response("feature-importance", "success")
  /\ ~loading
  /\ predictsInFlight = 0

\* C25: in Optimize handlePredict does nothing when form.vm is empty;
\* otherwise it clears placement and error at its start, and once it has
\* finished exactly one of these holds: placement is non-null and error is
\* empty, or placement is null and error is non-empty.  At most one
\* handlePredict is in flight at a time.
C25_HandlePredictOutcome ==
  /\ [](/\ opt_inFlight \in {0, 1}
        /\ opt_loading <=> opt_inFlight = 1
        /\ opt_pc = "finished" =>
             \/ placement # <<>> /\ opt_error = ""
             \/ placement = <<>> /\ opt_error # "")
  /\ [][(~opt_loading /\ opt_last' = "handlePredict") =>
         IF form.vm = ""
         THEN UNCHANGED <<placement, opt_error, opt_loading, opt_inFlight,
                          backendLog, opt_pc>>
         ELSE placement' = <<>> /\ opt_error' = "" /\ opt_loading']_vars

\* a second handlePredict has finished with an HTTP error status, after a
\* first one that had set a placement
C25_Witness ==
  /\ opt_pc = "finished"
  /\ ~opt_loading
  /\ placement = <<>>
  /\ opt_error = "Prediction failed"
  /\ backendLog = <<"VM Fetch", "Predict", "ERROR">>

====
